---- MODULE Spec2Model ----
(***************************************************************************)
(* Model of rey's load-generation engine: Work::execute (orchestrator and  *)
(* collector loop), Worker::execute (request loop), the bounded result     *)
(* channel between them, the cancellation source spawned by main, and the  *)
(* statistics of Reporter::into_report.                                    *)
(***************************************************************************)
EXTENDS Integers, Naturals, Sequences, FiniteSets, TLC

\* ------------------------------------------------------------------ bounds
MaxWorkers == 2
MaxRequests == 4
\* the length of the latency lists drawn exhaustively
MaxSamples == 4
\* f64 is modelled as a binary floating-point format with this many bits of
\* significand and round-to-nearest-even (f64 itself has 53)
Precision == 6

\* ------------------------------------------------------------ input domains
\* Work.workers is a u16 taken from the command line without validation.
WorkerCounts == 0..MaxWorkers
\* Work.total_requests is a u64 taken from the command line.
RequestCounts == 0..MaxRequests
\* Work.rate_limit is an Option<f64>: <<>> is None, <<qps>> is Some(qps).
None == <<>>
Some(x) == <<x>>
RateLimits == {None, Some(3)}

\* RequestResult = Result<SourceStat, reqwest::Error>
SourceStat(d, c, l) ==
    [ok |-> TRUE, duration |-> d, status_code |-> c, content_length |-> l, error |-> ""]
RequestError(e) ==
    [ok |-> FALSE, duration |-> 0, status_code |-> 0, content_length |-> 0, error |-> e]
\* the outcomes make_request can have: a response, or an error
RequestResult == {SourceStat(2, 200, 5), RequestError("timeout")}

\* ------------------------------------------------------------------- state
VARIABLES
    client_ok,       \* whether client_builder.try_into() succeeds
    workers,         \* Work.workers
    total_requests,  \* Work.total_requests
    rate_limit,      \* Work.rate_limit
    pc,              \* position of Work::execute
    spawned,         \* number of worker tasks spawned so far
    channel_made,    \* channel(self.workers) has been called
    sender,          \* the orchestrator still holds its Sender
    chan,            \* messages queued in the channel
    rx_closed,       \* receiver.close() has been called
    wpc,             \* position of each Worker::execute
    wi,              \* completed iterations of each worker's for loop
    slept,           \* completed rate-limit sleeps of each worker
    issued,          \* make_request calls of each worker
    result,          \* the RequestResult a worker is holding
    acc,             \* the collector's local accumulators
    exit_by,         \* which select! branch broke the loop
    ret,             \* what Work::execute returned
    timer_elapsed,   \* sleep(max_duration) is ready
    interrupted,     \* ctrl_c() is ready
    cpc,             \* position of the cancellation task spawned by main
    permit,          \* the Notify holds a stored notification
    notify_count,    \* calls of notify.notify_one()
    consumed,        \* completions of cancel.notified()
    sent_ok,         \* ids of outcomes whose send returned Ok
    observed,        \* ids of outcomes received by the collector, in order
    report           \* main's Report, once into_report has run

vars == <<client_ok, workers, total_requests, rate_limit, pc, spawned,
          channel_made, sender, chan, rx_closed, wpc, wi, slept, issued,
          result, acc, exit_by, ret, timer_elapsed, interrupted, cpc, permit,
          notify_count, consumed, sent_ok, observed, report>>

\* the fields of Work, fixed for the run
workVars == <<client_ok, workers, total_requests, rate_limit>>
\* the state of the Worker tasks
workerVars == <<wpc, wi, slept, issued, result>>
\* the state of the channel and what passed through it
chanVars == <<chan, rx_closed, sent_ok, observed>>
\* the state of main's cancellation task and of the Notify
cancelVars == <<timer_elapsed, interrupted, cpc, permit, notify_count>>

WorkerIds == 1..MaxWorkers
NoResult == RequestError("")

\* no error description has been counted yet: HashMap::new()
EmptyDist == [k \in {} |-> 0]

\* the locals of Work::execute declared before the loop
EmptyAcc ==
    [total_requests |-> 0, success_requests |-> 0, durations |-> <<>>,
     status_codes |-> <<>>, size_total |-> 0, error_dist |-> EmptyDist]

\* main has no Report yet
NoReport == <<>>

Init ==
    /\ client_ok \in BOOLEAN
    /\ workers \in WorkerCounts
    /\ total_requests \in RequestCounts
    /\ rate_limit \in RateLimits
    /\ pc = "build"
    /\ spawned = 0
    /\ channel_made = FALSE
    /\ sender = FALSE
    /\ chan = <<>>
    /\ rx_closed = FALSE
    /\ wpc = [w \in WorkerIds |-> "unspawned"]
    /\ wi = [w \in WorkerIds |-> 0]
    /\ slept = [w \in WorkerIds |-> 0]
    /\ issued = [w \in WorkerIds |-> 0]
    /\ result = [w \in WorkerIds |-> NoResult]
    /\ acc = EmptyAcc
    /\ exit_by = "none"
    /\ ret = <<>>
    /\ timer_elapsed = FALSE
    /\ interrupted = FALSE
    /\ cpc = "select"
    /\ permit = FALSE
    /\ notify_count = 0
    /\ consumed = 0
    /\ sent_ok = {}
    /\ observed = <<>>
    /\ report = NoReport

\* ------------------------------------------------------------ the channel
\* a channel sized by the request count instead of the worker count
CapacityByRequests == total_requests

\* tokio::sync::mpsc::channel(self.workers as usize): the buffer's capacity
Capacity == workers

\* A Sender exists for every spawned worker that has not returned, and for
\* the orchestrator until drop(sender).
SendersAlive ==
    sender \/ \E w \in WorkerIds : wpc[w] \notin {"unspawned", "done"}

\* a send that waits for a free slot even when the receiver is closed
SendReadySlotOnly == Len(chan) < Capacity

\* Sender::send resolves once a slot is free or the receiver is closed.
SendReady == rx_closed \/ Len(chan) < Capacity

\* a recv that leaves the message in the queue
RecvNoPop == [msg |-> Head(chan), rest |-> chan]

\* a recv that takes the newest message
RecvNewest ==
    [msg |-> chan[Len(chan)], rest |-> SubSeq(chan, 1, Len(chan) - 1)]

\* Receiver::recv with a non-empty queue: the oldest message is taken out.
Recv == [msg |-> Head(chan), rest |-> Tail(chan)]

\* ------------------------------------------------------- Work::execute
\* a quota that rounds up instead of down
requestsCeil == (total_requests + workers - 1) \div workers

\* let requests = self.total_requests / (self.workers as u64);
requests == total_requests \div workers

\* a client error that is not checked before the channel is created
BuildClientErrLate ==
    /\ pc = "build"
    /\ ~client_ok
    /\ workers > 0
    /\ pc' = "spawn"
    /\ channel_made' = TRUE
    /\ sender' = TRUE
    /\ UNCHANGED <<workVars, report, workerVars, chanVars, cancelVars, spawned, acc,
                   exit_by, ret, consumed>>

\* let client = Arc::new(self.client_builder.try_into()?);  -- the Err arm
BuildClientErr ==
    /\ pc = "build"
    /\ ~client_ok
    /\ pc' = "done"
    /\ ret' = <<"Err">>
    /\ UNCHANGED <<workVars, report, workerVars, chanVars, cancelVars, spawned,
                   channel_made, sender, acc, exit_by, consumed>>

\* the Ok arm, then the quota division and channel(self.workers): both panic
\* when workers is 0
BuildClientOk ==
    /\ pc = "build"
    /\ client_ok
    /\ IF workers = 0
       THEN /\ pc' = "panic"
            /\ UNCHANGED <<channel_made, sender>>
       ELSE /\ pc' = "spawn"
            /\ channel_made' = TRUE
            /\ sender' = TRUE
    /\ UNCHANGED <<workVars, report, workerVars, chanVars, cancelVars, spawned, acc,
                   exit_by, ret, consumed>>

\* one iteration of `for _ in 0..self.workers`: tokio::spawn of a Worker
SpawnWorker ==
    /\ pc = "spawn"
    /\ spawned < workers
    /\ spawned' = spawned + 1
    /\ wpc' = [wpc EXCEPT ![spawned + 1] = "iter"]
    /\ UNCHANGED <<workVars, report, chanVars, cancelVars, wi, slept, issued, result,
                   pc, channel_made, sender, acc, exit_by, ret, consumed>>

\* an orchestrator that keeps its Sender while it collects
DropSenderKept ==
    /\ pc = "spawn"
    /\ spawned = workers
    /\ pc' = "collect"
    /\ UNCHANGED <<workVars, report, workerVars, chanVars, cancelVars, spawned,
                   channel_made, sender, acc, exit_by, ret, consumed>>

\* drop(sender), after the spawn loop
DropSender ==
    /\ pc = "spawn"
    /\ spawned = workers
    /\ sender' = FALSE
    /\ pc' = "collect"
    /\ UNCHANGED <<workVars, report, workerVars, chanVars, cancelVars, spawned,
                   channel_made, acc, exit_by, ret, consumed>>

\* ----------------------------------------------------- Worker::execute
\* let interval = self.rate_limit.map(|qps| (1000000_f64 / qps).floor() as u64);
interval ==
    IF rate_limit = None THEN None ELSE Some(1000000 \div rate_limit[1])

\* The ghost id of the outcome worker w is producing: the worker and the
\* 1-based index of the loop iteration.
OutcomeId(w) == <<w, wi[w] + 1>>

\* a send failure that is logged without the `return`
SendErrNextContinue == "iter"

\* where the worker goes when sender.send(result).await is Err: `return`
SendErrNext == "done"

\* an inclusive range, 0..=self.requests
QuotaLeftInclusive(w) == wi[w] <= requests

\* `for _ in 0..self.requests` has an iteration left
QuotaLeft(w) == wi[w] < requests

\* a limiter that lets the first request go at once
MustSleepAfterFirst(w) == interval # None /\ wi[w] > 0

\* if let Some(interval) = interval
MustSleep(w) == interval # None

\* the head of the for loop
WorkerIter(w) ==
    /\ wpc[w] = "iter"
    /\ IF QuotaLeft(w)
       THEN IF MustSleep(w)
            THEN /\ wpc' = [wpc EXCEPT ![w] = "sleep"]
                 /\ UNCHANGED issued
            ELSE /\ wpc' = [wpc EXCEPT ![w] = "request"]
                 /\ issued' = [issued EXCEPT ![w] = @ + 1]
       ELSE /\ wpc' = [wpc EXCEPT ![w] = "done"]
            /\ UNCHANGED issued
    /\ UNCHANGED <<workVars, report, chanVars, cancelVars, wi, slept, result, pc,
                   spawned, channel_made, sender, acc, exit_by, ret, consumed>>

\* tokio::time::sleep(Duration::from_micros(interval)).await completes and
\* make_request is called
WorkerWake(w) ==
    /\ wpc[w] = "sleep"
    /\ slept' = [slept EXCEPT ![w] = @ + 1]
    /\ wpc' = [wpc EXCEPT ![w] = "request"]
    /\ issued' = [issued EXCEPT ![w] = @ + 1]
    /\ UNCHANGED <<workVars, report, chanVars, cancelVars, wi, result, pc, spawned,
                   channel_made, sender, acc, exit_by, ret, consumed>>

\* self.make_request().await completes with Ok(SourceStat) or Err(error)
WorkerComplete(w) ==
    /\ wpc[w] = "request"
    /\ \E r \in RequestResult : result' = [result EXCEPT ![w] = r]
    /\ wpc' = [wpc EXCEPT ![w] = "send"]
    /\ UNCHANGED <<workVars, report, chanVars, cancelVars, wi, slept, issued, pc,
                   spawned, channel_made, sender, acc, exit_by, ret, consumed>>

\* sender.send(result).await resolves: Err when the receiver is closed,
\* otherwise the message is queued and the loop goes on
WorkerSend(w) ==
    /\ wpc[w] = "send"
    /\ SendReady
    /\ IF rx_closed
       THEN /\ wpc' = [wpc EXCEPT ![w] = SendErrNext]
            /\ UNCHANGED <<chan, sent_ok, wi>>
       ELSE /\ chan' = Append(chan, [id |-> OutcomeId(w), result |-> result[w]])
            /\ sent_ok' = sent_ok \cup {OutcomeId(w)}
            /\ wi' = [wi EXCEPT ![w] = @ + 1]
            /\ wpc' = [wpc EXCEPT ![w] = "iter"]
    /\ result' = [result EXCEPT ![w] = NoResult]
    /\ UNCHANGED <<workVars, report, cancelVars, rx_closed, observed, slept, issued,
                   pc, spawned, channel_made, sender, acc, exit_by, ret,
                   consumed>>

\* ------------------------------------------------------------------ f64
\* Values are counted in quanta of 2^-Precision: One is 1.0. A value below
\* 2^Precision quanta is held exactly; above, only its Precision leading bits.
One == 2^Precision

RECURSIVE Bits(_)
\* the number of binary digits of n
Bits(n) == IF n = 0 THEN 0 ELSE 1 + Bits(n \div 2)

\* the spacing of the representable values around q
Granule(q) == IF q < 2^Precision THEN 1 ELSE 2^(Bits(q) - Precision)

\* n/d rounded to the nearest integer, ties to even
RoundHalfEven(n, d) ==
    LET q == n \div d
        r == n % d
    IN  IF 2 * r < d THEN q
        ELSE IF 2 * r > d THEN q + 1
        ELSE q + (q % 2)

\* the f64 nearest to n/d: the rounding every f64 operation ends with
F64(n, d) ==
    LET g == Granule(n \div d)
    IN  g * RoundHalfEven(n, d * g)

\* Duration::as_secs_f64 of a Duration of d ticks (One ticks to the second)
as_secs_f64(d) == F64(d, 1)

\* ------------------------------------------------- Reporter (report.rs)
RECURSIVE Insert(_, _)
\* x put into the ascending list s, after the elements equal to it
Insert(s, x) ==
    IF s = <<>> THEN <<x>>
    ELSE IF x < Head(s) THEN <<x>> \o s
    ELSE <<Head(s)>> \o Insert(Tail(s), x)

RECURSIVE SortAscending(_)
\* self.durations.sort_by(|a, b| a.total_cmp(b))
SortAscending(s) ==
    IF s = <<>> THEN <<>>
    ELSE Insert(SortAscending(SubSeq(s, 1, Len(s) - 1)), s[Len(s)])

RECURSIVE SumFrom(_, _, _)
\* the f64 additions of iter().sum(), left to right from element i
SumFrom(s, i, total) ==
    IF i > Len(s) THEN total ELSE SumFrom(s, i + 1, F64(total + s[i], 1))

\* self.durations.iter().sum()
Sum(s) == SumFrom(s, 1, 0)

\* let bc = 10_usize;
bc == 10

\* bucket marks whose last one is computed too: fastest + bs * i for i in 0..=bc
BucketMarksAllComputed(fastest, slowest) ==
    LET bs == F64(slowest - fastest, bc)
    IN  [k \in 1..(bc + 1) |-> F64(fastest + F64(bs * (k - 1), 1), 1)]

\* the bucket marks: fastest + bs * i for i in 0..bc, then slowest
BucketMarks(fastest, slowest) ==
    LET bs == F64(slowest - fastest, bc)
    IN  [k \in 1..(bc + 1) |->
            IF k <= bc THEN F64(fastest + F64(bs * (k - 1), 1), 1)
            ELSE slowest]

RECURSIVE Walk(_, _, _, _, _)
\* the while loop of histogram from cursor i (0-based) and bucket bi
\* (0-based): the counts when it ends; ended is FALSE when an iteration
\* changes neither i nor bi, where the loop never ends
Walk(durations, buckets, i, bi, counts) ==
    IF ~(i < Len(durations))
    THEN [counts |-> counts, ended |-> TRUE]
    ELSE IF durations[i + 1] <= buckets[bi + 1]
    THEN Walk(durations, buckets, i + 1, bi,
              [counts EXCEPT ![bi + 1] = @ + 1])
    ELSE IF bi < Len(buckets) - 1
    THEN Walk(durations, buckets, i, bi + 1, counts)
    ELSE [counts |-> counts, ended |-> FALSE]

\* a frequency given in percent
BucketPercent(mark, count, len) ==
    [mark |-> mark, count |-> count, frequency |-> F64(count * 100 * One, len)]

\* Bucket { mark, count, frequency }
Bucket(mark, count, len) ==
    [mark |-> mark, count |-> count, frequency |-> F64(count * One, len)]

\* Reporter::histogram; <<"diverges">> when the loop never ends
histogram(self, fastest, slowest) ==
    IF self.success_requests = 0 THEN <<>>
    ELSE LET buckets == BucketMarks(fastest, slowest)
             walk == Walk(self.durations, buckets, 0, 0,
                          [k \in 1..(bc + 1) |-> 0])
         IN  IF walk.ended
             THEN [k \in 1..(bc + 1) |->
                     Bucket(buckets[k], walk.counts[k], Len(self.durations))]
             ELSE <<"diverges">>

\* let pctls = [10_u8, 25, 50, 75, 90, 95, 99];
pctls == <<10, 25, 50, 75, 90, 95, 99>>

RECURSIVE LatencyData(_, _, _, _)
\* the while loop of latencies from index i (0-based) and target j (0-based)
LatencyData(durations, i, j, data) ==
    IF i < Len(durations) /\ Len(data) < Len(pctls)
    THEN LET current == (i * 100) \div Len(durations)
         IN  IF current >= pctls[j + 1]
             THEN LatencyData(durations, i + 1, j + 1,
                              Append(data, durations[i + 1]))
             ELSE LatencyData(durations, i + 1, j, data)
    ELSE data

\* Reporter::latencies: pctls zipped with the data
latencies(self) ==
    LET data == LatencyData(self.durations, 0, 0, <<>>)
    IN  [k \in 1..Len(data) |-> [percentage |-> pctls[k], latency |-> data[k]]]

RECURSIVE CountCodes(_, _, _)
\* the fold of status_codes into a map from code to count
CountCodes(codes, i, map) ==
    IF i > Len(codes) THEN map
    ELSE CountCodes(codes, i + 1,
            [c \in DOMAIN map \cup {codes[i]} |->
                IF c = codes[i]
                THEN (IF c \in DOMAIN map THEN map[c] ELSE 0) + 1
                ELSE map[c]])

\* a sort that leaves the last element where it arrived
PreparedButLast(durations) ==
    IF durations = <<>> THEN <<>>
    ELSE Append(SortAscending(SubSeq(durations, 1, Len(durations) - 1)),
                durations[Len(durations)])

\* durations left in the order of arrival
PreparedUnsorted(durations) == durations

\* what into_report does to self.durations before the statistics
Prepared(durations) == SortAscending(durations)

\* Reporter::into_report(self, total), total a Duration in ticks
\* a default of one second for an empty list
firstOrOne(durations) == IF durations = <<>> THEN One ELSE durations[1]

\* *self.durations.first().unwrap_or(&0.0)
first(durations) == IF durations = <<>> THEN 0 ELSE durations[1]

\* *self.durations.last().unwrap_or(&0.0)
last(durations) == IF durations = <<>> THEN 0 ELSE durations[Len(durations)]

into_report(self, total) ==
    LET avg_total == Sum(self.durations)
        sorted == [self EXCEPT !.durations = Prepared(self.durations)]
        fastest == first(sorted.durations)
        slowest == last(sorted.durations)
    IN  [total |-> total,
         rps |-> F64(self.total_requests * One * One, as_secs_f64(total)),
         avg_total |-> avg_total,
         total_requests |-> self.total_requests,
         size_total |-> self.size_total,
         num_res |-> 0,
         average |-> IF self.success_requests > 0
                     THEN F64(avg_total, self.success_requests) ELSE 0,
         size_req |-> IF self.success_requests > 0
                      THEN self.size_total \div self.success_requests ELSE 0,
         fastest |-> fastest,
         slowest |-> slowest,
         histogram |-> histogram(sorted, fastest, slowest),
         latency_dist |-> latencies(sorted),
         error_dist |-> self.error_dist,
         status_code_dist |->
            CountCodes(self.status_codes, 1, [c \in {} |-> 0])]

\* ------------------------------------------- the collector loop's arms
\* *error_dist.entry(err.to_string()).or_insert(0) += 1
Bump(dist, key) ==
    [k \in DOMAIN dist \cup {key} |->
        IF k = key
        THEN (IF key \in DOMAIN dist THEN dist[key] ELSE 0) + 1
        ELSE dist[k]]

\* an Ok arm that forgets status_codes.push
AccumulateNoCode(a, r) ==
    IF r.ok
    THEN [a EXCEPT !.total_requests = @ + 1,
                   !.success_requests = @ + 1,
                   !.durations = Append(@, as_secs_f64(r.duration)),
                   !.size_total = @ + r.content_length]
    ELSE [a EXCEPT !.total_requests = @ + 1,
                   !.error_dist = Bump(@, r.error)]

\* an Err arm that forgets total_requests += 1
AccumulateErrUncounted(a, r) ==
    IF r.ok
    THEN [a EXCEPT !.total_requests = @ + 1,
                   !.success_requests = @ + 1,
                   !.durations = Append(@, as_secs_f64(r.duration)),
                   !.status_codes = Append(@, r.status_code),
                   !.size_total = @ + r.content_length]
    ELSE [a EXCEPT !.error_dist = Bump(@, r.error)]

\* the Some(result) arm: what one received result does to the accumulators
Accumulate(a, r) ==
    IF r.ok
    THEN [a EXCEPT !.total_requests = @ + 1,
                   !.success_requests = @ + 1,
                   !.durations = Append(@, as_secs_f64(r.duration)),
                   !.status_codes = Append(@, r.status_code),
                   !.size_total = @ + r.content_length]
    ELSE [a EXCEPT !.total_requests = @ + 1,
                   !.error_dist = Bump(@, r.error)]

\* a cancel arm without the `break`
CancelNextNoBreak == "collect"

\* where Work::execute goes after receiver.close(): `break`
CancelNext == "return"

\* _ = cancel.notified() => { receiver.close(); break; }
CollectCancel ==
    /\ pc = "collect"
    /\ permit
    /\ permit' = FALSE
    /\ consumed' = consumed + 1
    /\ rx_closed' = TRUE
    /\ exit_by' = "cancel"
    /\ pc' = CancelNext
    /\ UNCHANGED <<workVars, report, workerVars, chan, sent_ok, observed,
                   timer_elapsed, interrupted, cpc, notify_count, spawned,
                   channel_made, sender, acc, ret>>

\* msg = receiver.recv() => Some(result)
CollectRecv ==
    /\ pc = "collect"
    /\ chan # <<>>
    /\ acc' = Accumulate(acc, Recv.msg.result)
    /\ observed' = Append(observed, Recv.msg.id)
    /\ chan' = Recv.rest
    /\ UNCHANGED <<workVars, report, workerVars, cancelVars, rx_closed, sent_ok, pc,
                   spawned, channel_made, sender, exit_by, ret, consumed>>

\* msg = receiver.recv() => None: the queue is empty and no Sender is left
CollectClosed ==
    /\ pc = "collect"
    /\ chan = <<>>
    /\ ~SendersAlive
    /\ exit_by' = "closed"
    /\ pc' = "return"
    /\ UNCHANGED <<workVars, report, workerVars, chanVars, cancelVars, spawned,
                   channel_made, sender, acc, ret, consumed>>

\* Ok(Reporter { total_requests, success_requests, ... })
Return ==
    /\ pc = "return"
    /\ ret' = <<"Ok", acc>>
    /\ pc' = "done"
    /\ UNCHANGED <<workVars, report, workerVars, chanVars, cancelVars, spawned,
                   channel_made, sender, acc, exit_by, consumed>>

\* ----------------------------------------------- main, after execute
\* start.elapsed(), in ticks: one second, three seconds
Elapsed == {One, 3 * One}

\* let reporter = report.into_report(start.elapsed());
IntoReport ==
    /\ pc = "done"
    /\ ret # <<>>
    /\ ret[1] = "Ok"
    /\ report = NoReport
    /\ \E total \in Elapsed : report' = <<into_report(ret[2], total)>>
    /\ UNCHANGED <<workVars, workerVars, chanVars, cancelVars, pc, spawned,
                   channel_made, sender, acc, exit_by, ret, consumed>>

\* ------------------------------------------ main's cancellation task
\* tokio::time::sleep(max_duration) becomes ready
TimerElapse ==
    /\ ~timer_elapsed
    /\ timer_elapsed' = TRUE
    /\ UNCHANGED <<workVars, report, workerVars, chanVars, interrupted, cpc, permit,
                   notify_count, pc, spawned, channel_made, sender, acc,
                   exit_by, ret, consumed>>

\* ctrl_c() becomes ready
CtrlC ==
    /\ ~interrupted
    /\ interrupted' = TRUE
    /\ UNCHANGED <<workVars, report, workerVars, chanVars, timer_elapsed, cpc, permit,
                   notify_count, pc, spawned, channel_made, sender, acc,
                   exit_by, ret, consumed>>

\* a cancellation task that waits again after notifying
AfterNotifyLoop == "select"

\* where the task goes after notify.notify_one(): the async block ends
AfterNotify == "finished"

\* tokio::select! { _ = sleep(max_duration) => {} _ = ctrl_c() => {} }
CancelSelect ==
    /\ cpc = "select"
    /\ timer_elapsed \/ interrupted
    /\ cpc' = "notify"
    /\ UNCHANGED <<workVars, report, workerVars, chanVars, timer_elapsed, interrupted,
                   permit, notify_count, pc, spawned, channel_made, sender,
                   acc, exit_by, ret, consumed>>

\* notify_waiters(): wakes the collector only if it is waiting, stores nothing
CancelNotifyWaiters ==
    /\ cpc = "notify"
    /\ permit' = (pc = "collect")
    /\ notify_count' = notify_count + 1
    /\ cpc' = AfterNotify
    /\ UNCHANGED <<workVars, report, workerVars, chanVars, timer_elapsed, interrupted,
                   pc, spawned, channel_made, sender, acc, exit_by, ret,
                   consumed>>

\* notify.notify_one(): with no task waiting the Notify stores one permit
CancelNotify ==
    /\ cpc = "notify"
    /\ permit' = TRUE
    /\ notify_count' = notify_count + 1
    /\ cpc' = AfterNotify
    /\ UNCHANGED <<workVars, report, workerVars, chanVars, timer_elapsed, interrupted,
                   pc, spawned, channel_made, sender, acc, exit_by, ret,
                   consumed>>

\* ------------------------------------------------------- specification
Next ==
    \/ BuildClientErr
    \/ BuildClientOk
    \/ SpawnWorker
    \/ DropSender
    \/ \E w \in WorkerIds : WorkerIter(w)
    \/ \E w \in WorkerIds : WorkerWake(w)
    \/ \E w \in WorkerIds : WorkerComplete(w)
    \/ \E w \in WorkerIds : WorkerSend(w)
    \/ CollectCancel
    \/ CollectRecv
    \/ CollectClosed
    \/ Return
    \/ TimerElapse
    \/ CtrlC
    \/ CancelSelect
    \/ CancelNotify

Spec == Init /\ [][Next]_vars

\* ------------------------------------- the statistics, on their own
\* the lengths of the request Durations a Reporter can hold, in ticks
DurationTicks == {1, 2, One \div 2 + 1, One}

\* the latencies as the collector stores them
Latencies == {as_secs_f64(d) : d \in DurationTicks}

\* the status codes of n responses: all 200, or every second one 404
StatusCodes(n) ==
    {[k \in 1..n |-> 200], [k \in 1..n |-> IF k % 2 = 1 THEN 200 ELSE 404]}

\* the latency lists drawn exhaustively, in the order of arrival
ShortLists == UNION {[1..n -> Latencies] : n \in 0..MaxSamples}

\* long latency lists, arriving slowest first: n requests of 1..n ticks
LongLists == {[k \in 1..n |-> as_secs_f64(n + 1 - k)] : n \in {20, 100}}

\* the error distributions a Reporter can hold
ErrorDists ==
    {EmptyDist, [e \in {"timeout"} |-> 2],
     [e \in {"timeout", "connect"} |-> IF e = "timeout" THEN 1 ELSE 3]}

RECURSIVE DistTotal(_)
\* the sum of the counts of a distribution
DistTotal(dist) ==
    IF DOMAIN dist = {} THEN 0
    ELSE LET k == CHOOSE x \in DOMAIN dist : TRUE
         IN  dist[k] + DistTotal([x \in DOMAIN dist \ {k} |-> dist[x]])

\* The Reporters Work::execute can return with the latency list d: every
\* success has a latency and a status code, every attempt is a success or a
\* counted error, and every body held five bytes.
ReportersOf(d) ==
    {[total_requests |-> Len(d) + DistTotal(e), success_requests |-> Len(d),
      durations |-> d, status_codes |-> c, size_total |-> 5 * Len(d),
      error_dist |-> e] :
        c \in StatusCodes(Len(d)), e \in ErrorDists}

Reporters ==
    UNION {ReportersOf(d) : d \in ShortLists}
      \cup {[total_requests |-> Len(d), success_requests |-> Len(d),
             durations |-> d, status_codes |-> [k \in DOMAIN d |-> 200],
             size_total |-> 5 * Len(d), error_dist |-> EmptyDist] :
                 d \in LongLists}

\* Work::execute is about to return a Reporter it collected from one worker
StatsInit ==
    /\ acc \in Reporters
    /\ client_ok = TRUE
    /\ workers = 1
    /\ total_requests = acc.total_requests
    /\ rate_limit = None
    /\ pc = "return"
    /\ spawned = 1
    /\ channel_made = TRUE
    /\ sender = FALSE
    /\ chan = <<>>
    /\ rx_closed = FALSE
    /\ wpc = [w \in WorkerIds |-> IF w = 1 THEN "done" ELSE "unspawned"]
    /\ wi = [w \in WorkerIds |-> IF w = 1 THEN acc.total_requests ELSE 0]
    /\ slept = [w \in WorkerIds |-> 0]
    /\ issued = wi
    /\ result = [w \in WorkerIds |-> NoResult]
    /\ exit_by = "closed"
    /\ ret = <<>>
    /\ timer_elapsed = FALSE
    /\ interrupted = FALSE
    /\ cpc = "select"
    /\ permit = FALSE
    /\ notify_count = 0
    /\ consumed = 0
    /\ sent_ok = {<<1, k>> : k \in 1..acc.total_requests}
    /\ observed = [k \in 1..acc.total_requests |-> <<1, k>>]
    /\ report = NoReport

StatsNext == Return \/ IntoReport

StatsSpec == StatsInit /\ [][StatsNext]_vars

\* The task running Work::execute and the worker tasks are tokio tasks: the
\* runtime polls each one that is ready, and every request and sleep
\* completes. The timer, the interrupt and the cancellation task carry no
\* fairness: termination does not rest on cancellation.
Orchestrator ==
    \/ BuildClientErr
    \/ BuildClientOk
    \/ SpawnWorker
    \/ DropSender
    \/ CollectCancel
    \/ CollectRecv
    \/ CollectClosed
    \/ Return

Worker(w) ==
    WorkerIter(w) \/ WorkerWake(w) \/ WorkerComplete(w) \/ WorkerSend(w)

FairSpec ==
    /\ Spec
    /\ WF_vars(Orchestrator)
    /\ \A w \in WorkerIds : WF_vars(Worker(w))

\* ------------------------------------------------------------- claims
LoopExited == pc \in {"return", "done"} /\ exit_by # "none"

ObservedSet == {observed[i] : i \in DOMAIN observed}

\* C1: when the collector loop exits without having observed cancellation
\* (in particular whenever cancellation never fired), the number of attempts
\* recorded is exactly workers * floor(total_requests / workers).
C1_ExactAttempts ==
    (LoopExited /\ (notify_count = 0 \/ exit_by = "closed"))
        => acc.total_requests = workers * (total_requests \div workers)

\* a run without cancellation whose request count is no multiple of the
\* worker count has ended
C1_Witness ==
    /\ pc = "done"
    /\ notify_count = 0
    /\ workers = 2
    /\ total_requests = 3
    /\ acc.total_requests = 2

\* C2: every outcome the collector counted was sent, none is counted twice,
\* the attempt count is the number of outcomes observed and never exceeds the
\* number sent; when the loop ends without cancellation every outcome sent
\* has been counted exactly once.
C2_CountedOnce ==
    /\ \A i, j \in DOMAIN observed : i # j => observed[i] # observed[j]
    /\ ObservedSet \subseteq sent_ok
    /\ acc.total_requests = Len(observed)
    /\ acc.total_requests <= Cardinality(sent_ok)
    /\ (LoopExited /\ exit_by = "closed") => ObservedSet = sent_ok

\* cancellation was observed after some outcomes were counted and while
\* others were still queued: those are dropped
C2_Witness ==
    /\ exit_by = "cancel"
    /\ Len(observed) >= 1
    /\ Cardinality(sent_ok) > Len(observed)

\* C3: the step that consumes the notification closes the receiver and
\* leaves the loop without touching the accumulators; once the receiver is
\* closed nothing is accumulated or observed any more, and execute returns
\* Ok with the accumulators as they were.
C3_CancelStopsCollection ==
    [][ /\ (consumed' # consumed)
            => (rx_closed' /\ pc' = "return" /\ acc' = acc)
        /\ rx_closed => (acc' = acc /\ observed' = observed)
        /\ (rx_closed /\ ret' # ret) => ret' = <<"Ok", acc>> ]_vars

\* execute returned a partial Reporter after cancellation, with outcomes
\* left in the channel
C3_Witness ==
    /\ pc = "done"
    /\ exit_by = "cancel"
    /\ ret = <<"Ok", acc>>
    /\ acc.total_requests = 2
    /\ acc.total_requests < workers * requests
    /\ chan # <<>>

\* C4: the attempt count never exceeds workers * floor(total_requests /
\* workers), which never exceeds total_requests.
C4_AttemptsBounded ==
    workers >= 1 =>
        /\ acc.total_requests <= workers * (total_requests \div workers)
        /\ workers * (total_requests \div workers) <= total_requests

\* the bound is reached, below total_requests, while collecting
C4_Witness ==
    /\ pc = "collect"
    /\ workers >= 1
    /\ acc.total_requests = workers * (total_requests \div workers)
    /\ acc.total_requests < total_requests
    /\ acc.total_requests > 0


\* worker w's send failed: it returned with quota left
SendFailed(w) == wpc[w] = "done" /\ wi[w] < requests

\* C5: a worker whose send resolves while the receiver is closed returns in
\* that step, having queued nothing; a worker that has returned never issues
\* a request or leaves that state again; and a failed send never makes
\* execute return an error.
C5_SendFailureStopsWorker ==
    /\ [](\A w \in WorkerIds :
            (wpc[w] # "unspawned" /\ SendFailed(w)) => ret # <<"Err">>)
    /\ [][\A w \in WorkerIds :
            /\ (wpc[w] = "send" /\ rx_closed /\ wpc'[w] # "send")
                => (wpc'[w] = "done" /\ chan' = chan /\ sent_ok' = sent_ok
                    /\ issued'[w] = issued[w])
            /\ wpc[w] = "done"
                => (wpc'[w] = "done" /\ issued'[w] = issued[w]
                    /\ wi'[w] = wi[w])]_vars

\* a worker returned on a failed send with at least two requests of its
\* quota never issued, and execute returned Ok
C5_Witness ==
    \E w \in WorkerIds :
        /\ SendFailed(w)
        /\ requests - issued[w] >= 2
        /\ issued[w] = wi[w] + 1
        /\ ret # <<>>
        /\ ret[1] = "Ok"

\* C6: the collector observes each worker's outcomes in the order the worker
\* produced them, the same holds of the queue behind them, and a worker has
\* at most one request that was issued and not yet sent.
C6_PerWorkerOrder ==
    /\ \A i, j \in DOMAIN observed :
            (i < j /\ observed[i][1] = observed[j][1])
                => observed[i][2] < observed[j][2]
    /\ \A i \in DOMAIN observed : \A j \in DOMAIN chan :
            observed[i][1] = chan[j].id[1] => observed[i][2] < chan[j].id[2]
    /\ \A w \in WorkerIds :
            /\ issued[w] \in {wi[w], wi[w] + 1}
            /\ wpc[w] \in {"request", "send"} => issued[w] = wi[w] + 1

\* two outcomes of worker 2 were observed in order with one of worker 1
\* between them, and worker 2's first before worker 1's first
C6_Witness ==
    /\ Len(observed) >= 3
    /\ observed[1] = <<2, 1>>
    /\ observed[2] = <<1, 1>>
    /\ observed[3] = <<2, 2>>

\* C7: the channel never holds more than `workers` outcomes, and a worker
\* whose send finds it full while the receiver is open stays in its send,
\* issuing nothing, until the collector acts.
C7_BoundedChannel ==
    /\ [](Len(chan) <= workers)
    /\ [][\A w \in WorkerIds :
            (wpc[w] = "send" /\ ~rx_closed /\ Len(chan) >= workers)
                => (wpc'[w] = "send" /\ issued'[w] = issued[w]
                    /\ wi'[w] = wi[w] /\ Len(chan') <= Len(chan))]_vars

\* the channel is full with two workers and one of them is blocked in send
C7_Witness ==
    /\ workers = 2
    /\ Len(chan) = workers
    /\ ~rx_closed
    /\ \E w \in WorkerIds : wpc[w] = "send"

\* C8: under fair scheduling execute ends, every spawned worker returns, and
\* the collector loop is left through one of its two exits; the exit on a
\* closed channel is taken only after the orchestrator dropped its Sender,
\* every worker returned and every outcome sent was received.
C8_Terminates ==
    /\ <>(/\ pc \in {"done", "panic"}
          /\ \A w \in WorkerIds : wpc[w] \in {"unspawned", "done"})
    /\ [](/\ \A w \in WorkerIds : w <= spawned <=> wpc[w] # "unspawned"
          /\ (pc \in {"collect", "return"} \/ (pc = "done" /\ client_ok))
                => spawned = workers
          /\ (pc \in {"return", "done"} /\ ret # <<"Err">>)
                => exit_by \in {"cancel", "closed"}
          /\ exit_by = "cancel" => (rx_closed /\ consumed = 1)
          /\ exit_by = "closed" =>
                /\ ~sender
                /\ ~rx_closed
                /\ \A w \in 1..workers : wpc[w] = "done" /\ ~SendFailed(w)
                /\ chan = <<>>
                /\ ObservedSet = sent_ok)

\* a run of two workers ended on the closed channel although the
\* notification had been fired, every worker having returned
C8_Witness ==
    /\ pc = "done"
    /\ exit_by = "closed"
    /\ workers = 2
    /\ total_requests >= 4
    /\ notify_count = 1
    /\ \A w \in 1..workers : wpc[w] = "done"

\* C9: notify_one is called at most once, only after the timer elapsed or
\* the interrupt arrived, and never again when the other of the two occurs
\* later; the collector completes notified() at most once, and only after
\* the notification was fired.
C9_OneShotCancel ==
    /\ [](/\ notify_count <= 1
          /\ consumed <= notify_count
          /\ notify_count = 1 => (timer_elapsed \/ interrupted)
          /\ (cpc = "finished") <=> (notify_count = 1))
    /\ [][cpc = "finished"
            => (cpc' = "finished" /\ notify_count' = notify_count)]_vars

\* the notification was fired once and consumed once, and both the timer
\* and the interrupt have occurred
C9_Witness ==
    /\ notify_count = 1
    /\ consumed = 1
    /\ timer_elapsed
    /\ interrupted
    /\ cpc = "finished"

\* C10: execute returns Err only when client construction failed, and then
\* no channel was created, no worker spawned, no request issued and no
\* Reporter produced; while client construction fails none of these ever
\* happens.
C10_ClientErrorIsFatalFirst ==
    /\ (ret = <<"Err">>) <=> (~client_ok /\ pc = "done")
    /\ client_ok => ret # <<"Err">>
    /\ ~client_ok =>
        /\ ret \in {<<>>, <<"Err">>}
        /\ ~channel_made
        /\ spawned = 0
        /\ chan = <<>>
        /\ \A w \in WorkerIds : wpc[w] = "unspawned" /\ issued[w] = 0

\* execute returned the configuration error for a run of two workers
C10_Witness ==
    /\ ret = <<"Err">>
    /\ workers = 2
    /\ total_requests >= 2
    /\ pc = "done"

\* the count a distribution holds for a key, 0 when the key is absent
CountOf(dist, key) == IF key \in DOMAIN dist THEN dist[key] ELSE 0

\* the collector takes a failed outcome from the channel in this step
ReceivesFailure ==
    pc = "collect" /\ chan # <<>> /\ ~Recv.msg.result.ok /\ observed' # observed

\* C11: a failed outcome adds one to the attempts and one to the count of its
\* error description and changes no other accumulator; it neither ends the
\* collector's loop nor stops the worker that sent it. So a run in which
\* every request failed with one description reports that description with
\* the number of attempts, no status code and an average of 0.
C11_FailureCounted ==
    /\ [][ReceivesFailure =>
            LET e == Recv.msg.result.error IN
            /\ acc'.total_requests = acc.total_requests + 1
            /\ CountOf(acc'.error_dist, e) = CountOf(acc.error_dist, e) + 1
            /\ DOMAIN acc'.error_dist = DOMAIN acc.error_dist \cup {e}
            /\ \A k \in DOMAIN acc.error_dist \ {e} :
                   acc'.error_dist[k] = acc.error_dist[k]
            /\ acc'.success_requests = acc.success_requests
            /\ acc'.durations = acc.durations
            /\ acc'.status_codes = acc.status_codes
            /\ acc'.size_total = acc.size_total
            /\ pc' = "collect"]_vars
    /\ [][\A w \in WorkerIds :
            (wpc[w] = "send" /\ ~result[w].ok /\ OutcomeId(w) \in sent_ok' \ sent_ok)
                => wpc'[w] = "iter"]_vars
    /\ [](\A total \in Elapsed :
            (acc.success_requests = 0 /\ acc.total_requests > 0) =>
                LET r == into_report(acc, total) IN
                /\ DOMAIN r.error_dist = {"timeout"}
                /\ r.error_dist["timeout"] = r.total_requests
                /\ r.total_requests = Len(observed)
                /\ DOMAIN r.status_code_dist = {}
                /\ r.average = 0)

\* every request of a full run failed and the run returned
C11_Witness ==
    /\ pc = "done" /\ ret # <<>> /\ ret[1] = "Ok"
    /\ exit_by = "closed"
    /\ ret[2].success_requests = 0
    /\ ret[2].total_requests = MaxRequests
    /\ ret[2].error_dist["timeout"] = MaxRequests

\* main holds the Report built from the Reporter that execute returned
Reported == report # NoReport

\* the Reporter that was turned into the Report
reporter == ret[2]

RECURSIVE CountTotal(_, _)
\* the sum of the counts of the first k buckets
CountTotal(h, k) == IF k = 0 THEN 0 ELSE h[k].count + CountTotal(h, k - 1)

\* C12: with at least one success the bucket counts of the histogram add up
\* to success_count and every frequency is its count over success_count.
C12_HistogramCounts ==
    (Reported /\ reporter.success_requests > 0) =>
        LET h == report[1].histogram IN
        /\ CountTotal(h, Len(h)) = reporter.success_requests
        /\ \A k \in DOMAIN h :
               h[k].frequency = F64(h[k].count * One, reporter.success_requests)

\* a report whose histogram spreads MaxSamples latencies over several buckets
C12_Witness ==
    /\ Reported
    /\ reporter.success_requests = MaxSamples
    /\ \E j, k \in DOMAIN report[1].histogram :
           /\ j # k
           /\ report[1].histogram[j].count >= 2
           /\ report[1].histogram[k].count >= 1

\* the target percentiles
Targets == {pctls[j] : j \in DOMAIN pctls}

\* the 0-based indices i of a list of n latencies with i*100/n >= p
Reaching(p, n) == {i \in 0..(n - 1) : (i * 100) \div n >= p}

\* the least element of a non-empty set of naturals
Least(S) == CHOOSE i \in S : \A k \in S : i <= k

\* C13: for a non-empty latency list and a target percentile p, when some
\* index i of the sorted list has i*100/len >= p the percentile table has an
\* entry for p, with the sorted latency at the first such index.
C13_FirstIndexRecorded ==
    (Reported /\ reporter.durations # <<>>) =>
        LET sorted == SortAscending(reporter.durations)
            n == Len(sorted)
            table == report[1].latency_dist
        IN  \A p \in Targets :
                Reaching(p, n) # {} =>
                    \E k \in DOMAIN table :
                        /\ table[k].percentage = p
                        /\ table[k].latency = sorted[Least(Reaching(p, n)) + 1]

\* C14: for a non-empty set of success latencies the entries of the
\* percentile table come in increasing order of target percentile, with
\* non-decreasing latencies.
C14_TableMonotone ==
    (Reported /\ reporter.durations # <<>>) =>
        LET table == report[1].latency_dist IN
        \A j, k \in DOMAIN table :
            j < k => /\ table[j].percentage < table[k].percentage
                     /\ table[j].latency <= table[k].latency

\* a full table of seven entries, built from latencies that arrived
\* slowest first
C14_Witness ==
    /\ Reported
    /\ Len(report[1].latency_dist) = Len(pctls)
    /\ report[1].latency_dist[1].latency < report[1].latency_dist[Len(pctls)].latency
    /\ reporter.durations[1] > reporter.durations[Len(reporter.durations)]

\* C15: without a success the average, the size per request, the fastest
\* and the slowest latency are 0 and the histogram and the percentile table
\* are empty.
C15_ZeroSuccess ==
    (Reported /\ reporter.success_requests = 0) =>
        /\ report[1].average = 0
        /\ report[1].size_req = 0
        /\ report[1].fastest = 0
        /\ report[1].slowest = 0
        /\ report[1].histogram = <<>>
        /\ report[1].latency_dist = <<>>

\* a report of a run whose attempts all failed
C15_Witness ==
    /\ Reported
    /\ reporter.success_requests = 0
    /\ reporter.total_requests > 0
    /\ report[1].total_requests = reporter.total_requests

\* the list with its head moved to the end
Rotate(d) == IF d = <<>> THEN d ELSE Append(Tail(d), Head(d))

\* the list with its first two elements exchanged
SwapFirst(d) ==
    IF Len(d) < 2 THEN d ELSE <<d[2], d[1]>> \o SubSeq(d, 3, Len(d))

\* the list backwards
Reverse(d) == [k \in DOMAIN d |-> d[Len(d) + 1 - k]]

\* Rearrangements of a latency list. Rotate and SwapFirst generate every
\* permutation, and the lists up to MaxSamples are all among the inputs.
Orders(d) == {Rotate(d), SwapFirst(d), Reverse(d)}

\* the Report of the same Reporter with its latencies in the order q
Reordered(q) == into_report([reporter EXCEPT !.durations = q], report[1].total)

\* a Report without the two fields computed from the unsorted list
Stable(r) == [r EXCEPT !.avg_total = 0, !.average = 0]

\* C16 as stated: the Report is the same in every field for every order of
\* the latency list, all other fields and the elapsed time being equal.
C16_OrderInvariant ==
    Reported => \A q \in Orders(reporter.durations) : Reordered(q) = report[1]

\* C16 amended: the Report is the same in every field except avg_total and
\* average, which are computed from the f64 sum of the latencies in the
\* order they arrived.
C16_OrderInvariantButSum ==
    Reported =>
        \A q \in Orders(reporter.durations) :
            Stable(Reordered(q)) = Stable(report[1])

\* two orders of one latency list whose sums round differently
C16_Witness ==
    /\ Reported
    /\ \E q \in Orders(reporter.durations) :
           /\ q # reporter.durations
           /\ Reordered(q).avg_total # report[1].avg_total
           /\ Reordered(q).average # report[1].average
           /\ Reordered(q).histogram = report[1].histogram

\* The least time worker w has run, in microseconds: tokio's sleep never
\* completes before its duration has passed.
SleptMicros(w) == IF interval = None THEN 0 ELSE slept[w] * interval[1]

\* C17: a rate-limited worker sleeps floor(1000000 / qps) microseconds
\* before every request, the first included, so its k-th request starts no
\* earlier than k intervals after the worker started and every request has
\* a sleep of its own (no burst, no catch-up); a worker without a rate limit
\* never sleeps.
C17_FixedInterval ==
    /\ [](rate_limit # None =>
            /\ interval = Some(1000000 \div rate_limit[1])
            /\ \A w \in WorkerIds :
                   /\ issued[w] = slept[w]
                   /\ SleptMicros(w) >= issued[w] * (1000000 \div rate_limit[1]))
    /\ [][rate_limit # None =>
            \A w \in WorkerIds :
                issued'[w] # issued[w] =>
                    /\ wpc[w] = "sleep"
                    /\ issued'[w] = issued[w] + 1
                    /\ slept'[w] = slept[w] + 1]_vars
    /\ [](rate_limit = None =>
            \A w \in WorkerIds : slept[w] = 0 /\ wpc[w] # "sleep")

\* a rate-limited worker starts its second request after its second sleep,
\* 2 * 333333 microseconds after it started at the earliest
C17_Witness ==
    /\ rate_limit = Some(3)
    /\ \E w \in WorkerIds :
           /\ wpc[w] = "request"
           /\ issued[w] = 2
           /\ SleptMicros(w) = 666666

\* the run's duration has been reached, or the user interrupted it
DurationReached == timer_elapsed \/ interrupted

\* C18: with a maximum duration (-z) the request count is ignored: no
\* worker stops issuing requests and the collection does not end before the
\* duration is reached. -z sets only the length of the timer main sleeps
\* on, so every run of the model is a run with some duration.
C18_CountIgnored ==
    /\ \A w \in WorkerIds : wpc[w] = "done" => DurationReached
    /\ exit_by = "closed" => DurationReached
    /\ (pc = "done" /\ ret # <<>> /\ ret[1] = "Ok") => DurationReached

\* the first bucket of h, by index, whose mark is at least x
FirstBucket(h, x) == Least({k \in DOMAIN h : h[k].mark >= x})

\* C19: with a success the histogram has exactly 11 buckets, with the marks
\* fastest + i * bs for i = 0..9, bs = (slowest - fastest) / 10, and then
\* slowest; every latency is counted into the first bucket whose mark is at
\* least that latency; the walk over the sorted latencies ends.
C19_HistogramShape ==
    (Reported /\ reporter.success_requests > 0) =>
        LET h == report[1].histogram
            sorted == SortAscending(reporter.durations)
            fastest == sorted[1]
            slowest == sorted[Len(sorted)]
            bs == F64(slowest - fastest, 10)
        IN  /\ h # <<"diverges">>
            /\ Len(h) = 11
            /\ \A i \in 0..9 : h[i + 1].mark = F64(fastest + F64(bs * i, 1), 1)
            /\ h[11].mark = slowest
            /\ \A k \in DOMAIN h :
                   h[k].count =
                       Cardinality({i \in DOMAIN sorted :
                                       FirstBucket(h, sorted[i]) = k})

\* a histogram with latencies in its first, its last and a bucket between
C19_Witness ==
    /\ Reported
    /\ reporter.success_requests = MaxSamples
    /\ report[1].histogram[1].count >= 1
    /\ report[1].histogram[bc + 1].count >= 1
    /\ \E k \in 2..bc : report[1].histogram[k].count >= 1

\* the accumulators agree with each other
Consistent(a) ==
    /\ a.total_requests = a.success_requests + DistTotal(a.error_dist)
    /\ Len(a.durations) = a.success_requests
    /\ Len(a.status_codes) = a.success_requests

\* C20: in every state of the collector loop, and in the Reporter that
\* execute returns, total_requests is success_requests plus the sum of the
\* counts of error_dist, and durations and status_codes both have
\* success_requests elements.
C20_AccumulatorsConsistent ==
    /\ Consistent(acc)
    /\ (ret # <<>> /\ ret[1] = "Ok") => Consistent(ret[2])

\* a returned Reporter that holds successes and failures
C20_Witness ==
    /\ pc = "done" /\ ret # <<>> /\ ret[1] = "Ok"
    /\ ret[2].success_requests >= 2
    /\ DistTotal(ret[2].error_dist) >= 2
    /\ ret[2].total_requests = MaxRequests

\* worker w has started its request of this iteration, or has returned
PastStart(w) == wpc[w] \in {"request", "send", "done"}

\* C21: once the collector has closed the receiver each worker starts at
\* most one further request before its send fails and it returns, and a
\* worker waiting in send on a full channel is woken with a failure and
\* starts none. A worker has at most one started request that is not
\* delivered, and nothing is delivered after the close, so the requests a
\* worker starts after the close are at most issued - wi <= 1; a worker past
\* the start of a request never starts another.
C21_OneMoreRequest ==
    /\ [](\A w \in WorkerIds : issued[w] - wi[w] \in {0, 1})
    /\ [][rx_closed => (wi' = wi /\ sent_ok' = sent_ok /\ rx_closed')]_vars
    /\ [][rx_closed =>
            \A w \in WorkerIds :
                /\ issued'[w] - issued[w] \in {0, 1}
                /\ PastStart(w) =>
                       /\ issued'[w] = issued[w]
                       /\ wpc'[w] \in {"request", "send", "done"}
                /\ (wpc[w] = "send" /\ wpc'[w] # "send") => wpc'[w] = "done"]_vars
    /\ [](\A w \in WorkerIds :
            (rx_closed /\ wpc[w] = "send") => ENABLED WorkerSend(w))

\* The receiver was closed while the channel was full: every worker has
\* returned on a failed send with one request undelivered, and the channel
\* is still full.
C21_Witness ==
    /\ rx_closed
    /\ exit_by = "cancel"
    /\ workers = MaxWorkers
    /\ Len(chan) = Capacity
    /\ \A w \in WorkerIds :
           SendFailed(w) /\ issued[w] = wi[w] + 1

\* the cancellation notification has been fired
Notified == notify_count >= 1

\* the collector's loop has ended, or execute ended without starting it
Stopped == exit_by \in {"cancel", "closed"} \/ pc \in {"done", "panic"}

\* C22: a cancellation notification fired at any moment, before the
\* collector first waits on it or while it is busy, is retained until the
\* collector takes it: whenever the collector waits with the notification
\* pending its cancel branch is ready, the notification is taken only by
\* the collector, which then leaves the loop, and once it is fired the
\* collector eventually stops, on it or on the closed channel.
C22_CancelNotLost ==
    /\ []((Notified /\ consumed = 0) => permit)
    /\ []((permit /\ pc = "collect") => ENABLED CollectCancel)
    /\ [][(permit /\ ~permit') =>
            (pc = "collect" /\ consumed' = consumed + 1
             /\ exit_by' = "cancel" /\ pc' = "return")]_vars
    /\ [](exit_by = "closed" => consumed = 0)
    /\ (Notified ~> Stopped)

\* the notification was fired before the collector's first wait, while the
\* workers were still being spawned, and is kept
C22_Witness ==
    /\ Notified
    /\ permit
    /\ pc = "spawn"
    /\ spawned < workers
    /\ consumed = 0

====
